---- MODULE Spec2Model ----
(***************************************************************************)
(* devsync ai-engine: the review pipeline (main.py), the generator wrapper *)
(* (gemini_client.py) and the store (db.py).                               *)
(*                                                                         *)
(* Texts are sequences of symbols.  A symbol is the comma ",", the blank   *)
(* " ", or any other one-element string standing for a run of characters   *)
(* that holds no comma and neither starts nor ends with whitespace.        *)
(* Python values are records [t, v]: t is the type tag, v a sequence (the  *)
(* symbols of a str, the items of a list, empty for None and numbers).     *)
(* A request is one step: the handler runs from its first line to its      *)
(* response or its exception, the database statements it issues included.  *)
(***************************************************************************)
EXTENDS Integers, Sequences, FiniteSets, TLC

(* environ     os.environ as the handlers read it (after load_dotenv)
   MODEL_NAME  gemini_client.MODEL_NAME, read when the module is imported
   engine      db.engine, created when the module is imported, or none
   table       the rows of code_reviews
   nextId      the next value of the id sequence
   now         the database clock that stamps created_at
   saveCalls   how many times save_review has been called
   reviews     how many POST /ai/review requests have been handled
   last        what the last request did and answered *)
VARIABLES environ, MODEL_NAME, engine, table, nextId, now, saveCalls, reviews, last

vars == <<environ, MODEL_NAME, engine, table, nextId, now, saveCalls, reviews, last>>

(* ------------------------------ bounds -------------------------------- *)
MaxReviews == 2
MaxStrLen == 2
MaxItems == 2
MaxLimit == 3
MaxSaves == 4

(* ------------------------------ values -------------------------------- *)
Unset == "<unset>"
NoEngine == "<none>"

PyNone == [t |-> "none", v |-> <<>>]
PyNum == [t |-> "num", v |-> <<>>]
Absent == [t |-> "absent", v |-> <<>>]
PyStr(s) == [t |-> "str", v |-> s]
PyList(l) == [t |-> "list", v |-> l]

IsStr(x) == x.t = "str"
IsStrList(x) == x.t = "list" /\ \A i \in 1..Len(x.v) : x.v[i].t = "str"

Whitespace == {" "}
Comma == ","

(* ------------------------- str.strip / split / join -------------------- *)
RECURSIVE LStrip(_)
LStrip(s) == IF s # <<>> /\ Head(s) \in Whitespace THEN LStrip(Tail(s)) ELSE s

RECURSIVE RStrip(_)
RStrip(s) ==
  IF s # <<>> /\ s[Len(s)] \in Whitespace THEN RStrip(SubSeq(s, 1, Len(s) - 1)) ELSE s

Strip(s) == RStrip(LStrip(s))

(* s.split(","): the fragments between commas, empty ones included. *)
RECURSIVE Split(_)
Split(s) ==
  IF \A i \in 1..Len(s) : s[i] # Comma THEN <<s>>
  ELSE LET k == CHOOSE i \in 1..Len(s) : s[i] = Comma /\ \A j \in 1..(i - 1) : s[j] # Comma
       IN <<SubSeq(s, 1, k - 1)>> \o Split(SubSeq(s, k + 1, Len(s)))

(* ", ".join(texts) for a sequence of texts. *)
RECURSIVE JoinTexts(_)
JoinTexts(l) ==
  IF l = <<>> THEN <<>>
  ELSE IF Len(l) = 1 THEN l[1]
  ELSE l[1] \o <<Comma, " ">> \o JoinTexts(Tail(l))

(* What ", ".join(x) does with a Python value x: a list of str is joined, a
   str is iterated symbol by symbol, anything else raises TypeError. *)
JoinRaises(x) == ~(IsStrList(x) \/ IsStr(x))

Join(x) ==
  IF IsStr(x) THEN JoinTexts([i \in 1..Len(x.v) |-> <<x.v[i]>>])
  ELSE JoinTexts([i \in 1..Len(x.v) |-> x.v[i].v])

(* [x.strip() for x in (col or "").split(",") if x.strip()] *)
RECURSIVE KeepNonEmpty(_)
KeepNonEmpty(l) ==
  IF l = <<>> THEN <<>>
  ELSE IF Strip(Head(l)) # <<>> THEN <<Strip(Head(l))>> \o KeepNonEmpty(Tail(l))
  ELSE KeepNonEmpty(Tail(l))

SplitNoTrim(col) == Split(col)

SplitTrim(col) == KeepNonEmpty(Split(col))

(* ------------------------------ store (db.py) -------------------------- *)
Min2(a, b) == IF a <= b THEN a ELSE b

Db == [table |-> table, nextId |-> nextId, now |-> now]

(* What the database does with one statement: it commits, the connection
   fails before the statement is built, or the write fails after the
   sequence has handed out an id. *)
Fates == {"commit", "connectFail", "writeFail"}

InsertedRow(db, summary, risks, improvements, model) ==
  [id |-> db.nextId, summary |-> summary, risks |-> Join(risks),
   improvements |-> Join(improvements), model |-> model, created_at |-> db.now]

save_review(db, summary, risks, improvements, model, fate) ==
  IF engine = NoEngine THEN [exc |-> "none", db |-> db]
  ELSE IF fate = "connectFail" THEN [exc |-> "OperationalError", db |-> db]
  ELSE IF JoinRaises(risks) \/ JoinRaises(improvements) THEN [exc |-> "TypeError", db |-> db]
  ELSE IF fate = "writeFail"
    THEN [exc |-> "OperationalError", db |-> [db EXCEPT !.nextId = @ + 1]]
  ELSE [exc |-> "none",
        db |-> [table |-> db.table \cup {InsertedRow(db, summary, risks, improvements, model)},
                nextId |-> db.nextId + 1,
                now |-> db.now + 1]]

RECURSIVE OrderByIdAsc(_)
OrderByIdAsc(rows) ==
  IF rows = {} THEN <<>>
  ELSE LET low == CHOOSE r \in rows : \A q \in rows : r.id <= q.id
       IN <<low>> \o OrderByIdAsc(rows \ {low})

(* ORDER BY id DESC LIMIT :limit *)
RECURSIVE OrderByIdDesc(_)
OrderByIdDesc(rows) ==
  IF rows = {} THEN <<>>
  ELSE LET top == CHOOSE r \in rows : \A q \in rows : q.id <= r.id
       IN <<top>> \o OrderByIdDesc(rows \ {top})

Limit(rows, limit) == SubSeq(rows, 1, Min2(limit, Len(rows)))

Item(r) ==
  [id |-> r.id, summary |-> r.summary, risks |-> SplitTrim(r.risks),
   improvements |-> SplitTrim(r.improvements), model |-> r.model,
   created_at |-> r.created_at]

(* A negative LIMIT is rejected by PostgreSQL, and the query raises. *)
list_reviews(limit, fate) ==
  IF engine = NoEngine THEN [exc |-> "none", items |-> <<>>]
  ELSE IF fate # "commit" THEN [exc |-> "OperationalError", items |-> <<>>]
  ELSE IF limit < 0 THEN [exc |-> "DataError", items |-> <<>>]
  ELSE LET rows == Limit(OrderByIdDesc(table), limit)
       IN [exc |-> "none", items |-> [i \in 1..Len(rows) |-> Item(rows[i])]]

ping_db_unguarded(fate) ==
  IF engine = NoEngine THEN [exc |-> "none", value |-> FALSE]
  ELSE IF fate = "commit" THEN [exc |-> "none", value |-> TRUE]
  ELSE [exc |-> "OperationalError", value |-> FALSE]

ping_db(fate) ==
  IF engine = NoEngine THEN [exc |-> "none", value |-> FALSE]
  ELSE IF fate = "commit" THEN [exc |-> "none", value |-> TRUE]
  ELSE [exc |-> "none", value |-> FALSE]

(* ------------------------- process environment ------------------------- *)
EnvNames == {"DATABASE_URL", "GEMINI_API_KEY", "GEMINI_MODEL", "MOCK_MODE"}

(* os.getenv(name, default) *)
Getenv(name, default) == IF environ[name] = Unset THEN default ELSE environ[name]

(* str.lower() on the values the flag takes here *)
Lower(s) == IF s \in {"TRUE", "True", "true"} THEN "true" ELSE s

(* load_dotenv(): a name the process already has keeps its value *)
LoadDotenv(proc, file) == [n \in EnvNames |-> IF proc[n] # Unset THEN proc[n] ELSE file[n]]

EnvValues == {Unset, "postgresql://db", "", "key", "gemini-2.5-flash", "TRUE"}

WellTyped(e) ==
  /\ e["DATABASE_URL"] \in {Unset, "postgresql://db"}
  /\ e["GEMINI_API_KEY"] \in {Unset, "", "key"}
  /\ e["GEMINI_MODEL"] \in {Unset, "gemini-2.5-flash"}
  /\ e["MOCK_MODE"] \in {Unset, "TRUE"}

ProcEnvs == {e \in [EnvNames -> EnvValues] : WellTyped(e)}

DotenvFiles == {e \in ProcEnvs : e["GEMINI_API_KEY"] # ""}

(* Module load: db.py and gemini_client.py are imported, and read the
   environment, before main.py calls load_dotenv(). *)
DefaultModel == "gemini-3-pro-preview"
ModelNameAtImport(proc) == IF proc["GEMINI_MODEL"] = Unset THEN DefaultModel ELSE proc["GEMINI_MODEL"]
EngineAtImport(proc) == IF proc["DATABASE_URL"] \in {Unset, ""} THEN NoEngine ELSE proc["DATABASE_URL"]

(* ----------------------- generator (gemini_client.py) ------------------ *)
(* What the text-generation call does: it raises one of the client
   library's errors, or answers with a text. *)
NetworkErrors == {"ConnectError", "ServerError"}

K_summary == 1
K_risks == 2
K_improvements == 3
PyDict(summary, risks, improvements) == [t |-> "dict", v |-> <<summary, risks, improvements>>]

StrA == PyStr(<<"a">>)
StrB == PyStr(<<"b">>)

(* The parsed documents the answers carry. *)
JsonDocs ==
  { PyDict(StrA, PyList(<<StrA, StrB>>), PyList(<<StrA>>)),
    PyDict(Absent, Absent, Absent),
    PyDict(PyNone, PyList(<<>>), Absent),
    PyDict(StrA, PyNone, PyList(<<StrA>>)),
    PyDict(StrA, PyStr(<<"a", "b">>), PyList(<<>>)),
    PyDict(StrA, PyList(<<PyNum>>), Absent),
    PyList(<<>>) }

(* resp.text: None, or a text, with or without surrounding whitespace, whose
   content is empty, is not JSON, or is the serialisation of a document. *)
Text(none, padded, content, doc) ==
  [none |-> none, padded |-> padded, content |-> content, doc |-> doc]

RespTexts ==
  {Text(TRUE, FALSE, "empty", PyNone)}
  \cup {Text(FALSE, p, "empty", PyNone) : p \in BOOLEAN}
  \cup {Text(FALSE, FALSE, "notjson", PyNone)}
  \cup {Text(FALSE, FALSE, "json", d) : d \in JsonDocs}
  \cup {Text(FALSE, TRUE, "json", PyDict(Absent, Absent, Absent))}

(* (resp.text or "").strip(), raw_text.strip() *)
StripText(x) == [x EXCEPT !.none = FALSE, !.padded = FALSE]

GenOutcomes ==
  {[raises |-> e, text |-> Text(TRUE, FALSE, "empty", PyNone)] : e \in NetworkErrors}
  \cup {[raises |-> "none", text |-> x] : x \in RespTexts}

NoText == Text(TRUE, FALSE, "empty", PyNone)

generate_review(prompt, outcome) ==
  IF Getenv("GEMINI_API_KEY", Unset) \in {Unset, ""}
    THEN [exc |-> "ValueError", called |-> FALSE, text |-> NoText, model |-> MODEL_NAME]
  ELSE IF outcome.raises # "none"
    THEN [exc |-> outcome.raises, called |-> TRUE, text |-> NoText, model |-> MODEL_NAME]
  ELSE IF StripText(outcome.text).content = "empty"
    THEN [exc |-> "RuntimeError", called |-> TRUE, text |-> NoText, model |-> MODEL_NAME]
  ELSE [exc |-> "none", called |-> TRUE, text |-> StripText(outcome.text), model |-> MODEL_NAME]

(* json.loads(raw_text.strip()) *)
json_loads(x) ==
  IF StripText(x).content = "json" THEN [exc |-> "none", data |-> x.doc]
  ELSE [exc |-> "JSONDecodeError", data |-> PyNone]

(* data.get(key, default): AttributeError unless data is a dict *)
DictGet(data, k, default) == IF data.v[k].t = "absent" THEN default ELSE data.v[k]

(* --------------------------- pipeline (main.py) ------------------------ *)
FixedSummary == PyStr(<<"This change adds a print statement.">>)
FixedRisks ==
  PyList(<<PyStr(<<"Leaving debug prints in production code can clutter logs and leak information.">>)>>)
FixedImprovements ==
  PyList(<<PyStr(<<"Use structured logging instead of print().">>),
           PyStr(<<"Add a small test to verify expected behavior.">>),
           PyStr(<<"Remove debug output before merging to production.">>)>>)

NoError == "<absent>"
FallbackTag(e) == "fallback:" \o e

Body(summary, risks, improvements, raw, model, error) ==
  [summary |-> summary, risks |-> risks, improvements |-> improvements,
   raw |-> raw, model |-> model, error |-> error, type |-> "code-review"]

NoBody == Body(PyNone, PyNone, PyNone, NoText, "<no response>", NoError)

SaveCall(summary, risks, improvements, model, exc) ==
  [summary |-> summary, risks |-> risks, improvements |-> improvements,
   model |-> model, exc |-> exc]

MockModeCaseSensitive == Getenv("MOCK_MODE", "false") = "true"

MockMode == Lower(Getenv("MOCK_MODE", "false")) = "true"

Prompt(diff_text) == <<"You are an AI code review agent.">> \o diff_text

Run(mock, gen, parse, saves, db, exc, body) ==
  [mock |-> mock, gen |-> gen, parse |-> parse, saves |-> saves, db |-> db,
   exc |-> exc, body |-> body]

NoGen == [exc |-> "notcalled", called |-> FALSE, text |-> NoText, model |-> "<none>"]

(* lines 58-79 *)
MockPath(db, f1) ==
  LET s1 == save_review(db, FixedSummary, FixedRisks, FixedImprovements, "mock", f1)
      call == SaveCall(FixedSummary, FixedRisks, FixedImprovements, "mock", s1.exc)
  IN Run(TRUE, NoGen, "notrun", <<call>>, s1.db, s1.exc,
         IF s1.exc = "none"
           THEN Body(FixedSummary, FixedRisks, FixedImprovements, NoText, "mock", NoError)
           ELSE NoBody)

(* lines 119-142: the except branch, entered with exception e *)
FallbackPath(db, gen, parse, before, e, f2) ==
  LET model_used == FallbackTag(e)
      s2 == save_review(db, FixedSummary, FixedRisks, FixedImprovements, model_used, f2)
      call == SaveCall(FixedSummary, FixedRisks, FixedImprovements, model_used, s2.exc)
  IN Run(FALSE, gen, parse, Append(before, call), s2.db, s2.exc,
         IF s2.exc = "none"
           THEN Body(FixedSummary, FixedRisks, FixedImprovements, NoText, model_used, e)
           ELSE NoBody)

(* lines 96-117: the try block *)
GeminiPath(db, diff_text, outcome, f1, f2) ==
  LET gen == generate_review(Prompt(diff_text), outcome)
      loaded == json_loads(gen.text)
      data == loaded.data
      summary == DictGet(data, K_summary, PyStr(<<>>))
      risks == DictGet(data, K_risks, PyList(<<>>))
      improvements == DictGet(data, K_improvements, PyList(<<>>))
      s1 == save_review(db, summary, risks, improvements, gen.model, f1)
      call == SaveCall(summary, risks, improvements, gen.model, s1.exc)
  IN IF gen.exc # "none" THEN FallbackPath(db, gen, "notrun", <<>>, gen.exc, f2)
     ELSE IF loaded.exc # "none" THEN FallbackPath(db, gen, loaded.exc, <<>>, loaded.exc, f2)
     ELSE IF data.t # "dict" THEN FallbackPath(db, gen, "ok", <<>>, "AttributeError", f2)
     ELSE IF s1.exc # "none" THEN FallbackPath(s1.db, gen, "ok", <<call>>, s1.exc, f2)
     ELSE Run(FALSE, gen, "ok", <<call>>, s1.db, "none",
              Body(summary, risks, improvements, gen.text, gen.model, NoError))

ai_review(db, diff, outcome, f1, f2) ==
  LET diff_text == Strip(diff)
  IN IF MockMode THEN MockPath(db, f1) ELSE GeminiPath(db, diff_text, outcome, f1, f2)

Diffs == {<<>>, <<" ", "+print(x)">>}

AiReview(diff, outcome, f1, f2) ==
  /\ reviews < MaxReviews
  /\ \E r \in {ai_review(Db, diff, outcome, f1, f2)} :
        /\ table' = r.db.table
        /\ nextId' = r.db.nextId
        /\ now' = r.db.now
        /\ saveCalls' = saveCalls + Len(r.saves)
        /\ last' = [op |-> "review", diff |-> diff,
                    run |-> [f \in DOMAIN r \ {"db"} |-> r[f]]]
  /\ reviews' = reviews + 1
  /\ UNCHANGED <<environ, MODEL_NAME, engine>>

(* lines 39-47 *)
NoHealth ==
  [status |-> "<no response>", service |-> "ai-engine", db_connected |-> FALSE,
   model |-> "<no response>", mock_mode |-> "<no response>"]

health_check(fate) ==
  LET p == ping_db(fate)
  IN IF p.exc # "none" THEN [exc |-> p.exc, body |-> NoHealth]
     ELSE [exc |-> "none",
           body |-> [status |-> "ok", service |-> "ai-engine",
                     db_connected |-> p.value,
                     model |-> Getenv("GEMINI_MODEL", "not-set"),
                     mock_mode |-> Getenv("MOCK_MODE", "false")]]

HealthCheck(fate) ==
  /\ \E h \in {health_check(fate)} :
        last' = [op |-> "health", fate |-> fate, exc |-> h.exc, body |-> h.body]
  /\ UNCHANGED <<environ, MODEL_NAME, engine, table, nextId, now, saveCalls, reviews>>

(* lines 49-51 *)
GetReviews(limit, fate) ==
  /\ \E l \in {list_reviews(limit, fate)} :
        last' = [op |-> "reviews", limit |-> limit, exc |-> l.exc, items |-> l.items]
  /\ UNCHANGED <<environ, MODEL_NAME, engine, table, nextId, now, saveCalls, reviews>>

Limits == (-1)..MaxLimit

Init ==
  /\ \E proc \in ProcEnvs, file \in DotenvFiles :
       /\ MODEL_NAME = ModelNameAtImport(proc)
       /\ engine = EngineAtImport(proc)
       /\ environ = LoadDotenv(proc, file)
  /\ table = {}
  /\ nextId = 1
  /\ now = 1
  /\ saveCalls = 0
  /\ reviews = 0
  /\ last = [op |-> "none"]

(* Only the calls a request makes have an outcome: without an engine no
   statement reaches the database, and in mock mode or without a credential
   no generation call is made. *)
FatesNow == IF engine = NoEngine THEN {"commit"} ELSE Fates
GenOutcomesNow ==
  IF MockMode \/ Getenv("GEMINI_API_KEY", Unset) \in {Unset, ""}
    THEN {[raises |-> "none", text |-> NoText]}
    ELSE GenOutcomes

Next ==
  \/ \E diff \in Diffs, outcome \in GenOutcomesNow, f1 \in FatesNow, f2 \in FatesNow :
       AiReview(diff, outcome, f1, f2)
  \/ \E fate \in FatesNow : HealthCheck(fate)

Spec == Init /\ [][Next]_vars

(* ------------------- the store on its own (db.py) ---------------------- *)
(* StoreSpec: save_review and GET /reviews called in any order, with the
   three kinds of arguments the pipeline passes. *)
StoreInit ==
  /\ \E proc \in {e \in ProcEnvs : \A n \in EnvNames \ {"DATABASE_URL"} : e[n] = Unset} :
       /\ MODEL_NAME = ModelNameAtImport(proc)
       /\ engine = EngineAtImport(proc)
       /\ environ = proc
  /\ table = {}
  /\ nextId = 1
  /\ now = 1
  /\ saveCalls = 0
  /\ reviews = 0
  /\ last = [op |-> "none"]

SaveReviewCall(summary, risks, improvements, model, fate) ==
  /\ saveCalls < MaxSaves
  /\ \E s \in {save_review(Db, summary, risks, improvements, model, fate)} :
        /\ table' = s.db.table
        /\ nextId' = s.db.nextId
        /\ now' = s.db.now
        /\ last' = [op |-> "save", exc |-> s.exc,
                    args |-> SaveCall(summary, risks, improvements, model, s.exc)]
  /\ saveCalls' = saveCalls + 1
  /\ UNCHANGED <<environ, MODEL_NAME, engine, reviews>>

StoreArgs ==
  { SaveCall(FixedSummary, FixedRisks, FixedImprovements, "mock", "none"),
    SaveCall(FixedSummary, FixedRisks, FixedImprovements, FallbackTag("ValueError"), "none"),
    SaveCall(StrA, PyList(<<StrA, StrB>>), PyList(<<>>), DefaultModel, "none") }

StoreNext ==
  \/ \E a \in StoreArgs, fate \in FatesNow :
       SaveReviewCall(a.summary, a.risks, a.improvements, a.model, fate)
  \/ \E limit \in Limits, fate \in FatesNow : GetReviews(limit, fate)

StoreSpec == StoreInit /\ [][StoreNext]_vars

(* CodecSpec: the first save_review on an empty table, with every pair of
   lists of texts within the bounds, followed by list_reviews(1). *)
Symbols == {"a", " ", Comma}
Texts == UNION {[1..n -> Symbols] : n \in 0..MaxStrLen}

AsPyList(l) == PyList([i \in 1..Len(l) |-> PyStr(l[i])])

FirstSave ==
  /\ saveCalls = 0
  /\ \E n \in 0..MaxItems : \E l \in [1..n -> Texts], k \in 0..n, fate \in FatesNow :
       SaveReviewCall(StrA, AsPyList(SubSeq(l, 1, k)), AsPyList(SubSeq(l, k + 1, Len(l))),
                      DefaultModel, fate)

ListOne(fate) == GetReviews(1, fate)

CodecNext ==
  \/ FirstSave
  \/ \E fate \in FatesNow : ListOne(fate)

CodecSpec == StoreInit /\ [][CodecNext]_vars

(* ------------------------------- claims -------------------------------- *)
ReviewDone == last.op = "review"
Returned == ReviewDone /\ last.run.exc = "none"
SaveFailed == ReviewDone /\ \E i \in 1..Len(last.run.saves) : last.run.saves[i].exc = "OperationalError"
HasFixedContent(b) ==
  b.summary = FixedSummary /\ b.risks = FixedRisks /\ b.improvements = FixedImprovements

(* C1: with storage working or unconfigured, every POST /ai/review returns a
   response (it does not raise) whose summary and model are present and whose
   risks and improvements are sequences of strings. *)
C1_AlwaysWellFormed ==
  (ReviewDone /\ ~SaveFailed) =>
    /\ Returned
    /\ last.run.body.summary.t # "absent"
    /\ IsStrList(last.run.body.risks)
    /\ IsStrList(last.run.body.improvements)

(* C2: every review calls Store.save exactly once, so the number of save
   calls equals the number of reviews handled. *)
C2_OneSavePerReview ==
  /\ saveCalls = reviews
  /\ ReviewDone => Len(last.run.saves) = 1

(* C3: when a Store.save of the request fails, the review still returns, and
   returns the result it had chosen before persisting (the one handed to the
   first save), on the mock, the success and the fallback path. *)
C3_SaveFailureKeepsResult ==
  SaveFailed =>
    /\ Returned
    /\ last.run.body.summary = last.run.saves[1].summary
    /\ last.run.body.risks = last.run.saves[1].risks
    /\ last.run.body.improvements = last.run.saves[1].improvements
    /\ last.run.body.model = last.run.saves[1].model

GenerationFailed == ReviewDone /\ ~last.run.mock /\ last.run.gen.exc # "none"
ParsingFailed == ReviewDone /\ ~last.run.mock /\ last.run.parse = "JSONDecodeError"
(* The parsed value has not the mandated shape: it is no object, or a field
   of it cannot be joined. *)
ShapeFailed ==
  /\ ReviewDone /\ ~last.run.mock /\ last.run.parse = "ok"
  /\ \/ last.run.gen.text.doc.t # "dict"
     \/ last.run.saves[1].exc = "TypeError"
FailureKind == IF GenerationFailed THEN last.run.gen.exc ELSE last.run.parse
IsFallbackTag(m) ==
  \E e \in {"ValueError", "RuntimeError", "JSONDecodeError", "AttributeError", "TypeError",
            "OperationalError"} \cup NetworkErrors : m = FallbackTag(e)

(* C4: with mock mode off, a generation failure (credential, network, empty
   response) or a JSON parsing failure yields the fixed fallback content
   tagged fallback:<kind>, the kinds having pairwise different tags; and a
   fallback tag is returned only after a failure of generation or of parsing
   (a parsed value of the wrong shape counted among them). *)
C4_FallbackTagsNameTheFailure ==
  /\ (GenerationFailed \/ ParsingFailed) =>
       /\ Returned
       /\ HasFixedContent(last.run.body)
       /\ last.run.body.risks.v # <<>> /\ last.run.body.improvements.v # <<>>
       /\ last.run.body.model = FallbackTag(FailureKind)
       /\ (last.run.gen.exc = "ValueError") = ~last.run.gen.called
  /\ (Returned /\ IsFallbackTag(last.run.body.model)) =>
       (GenerationFailed \/ ParsingFailed \/ ShapeFailed)

MockEnabled == environ["MOCK_MODE"] \in {"true", "TRUE", "True"}

(* C5: with mock mode enabled a review never invokes the Generator, and what
   it returns is the fixed mock result whatever the diff, the credential and
   the Generator are. *)
C5_MockIsFixed ==
  (ReviewDone /\ MockEnabled) =>
    /\ last.run.mock
    /\ last.run.gen = NoGen
    /\ Returned =>
         /\ HasFixedContent(last.run.body)
         /\ last.run.body.model = "mock"
         /\ last.run.body.raw = NoText

C5_Witness ==
  /\ ReviewDone /\ MockEnabled /\ Returned
  /\ reviews = 2
  /\ last.diff # <<>>
  /\ environ["GEMINI_API_KEY"] = "key"
  /\ last.run.body.model = "mock"

(* C8: every result handed to Store.save has a string summary and model and
   list-valued risks and improvements; no null field reaches the store. *)
C8_SavedFieldsPopulated ==
  ReviewDone =>
    \A i \in 1..Len(last.run.saves) :
      /\ last.run.saves[i].summary.t = "str"
      /\ last.run.saves[i].risks.t = "list"
      /\ last.run.saves[i].improvements.t = "list"

(* C9: Store.ping never raises; it is false when storage is unconfigured or
   the round-trip query fails and true only when the query succeeded, and
   GET /health always answers with db_connected equal to it. *)
C9_PingNeverRaises ==
  last.op = "health" =>
    /\ last.exc = "none"
    /\ last.body.status = "ok"
    /\ last.body.db_connected = (engine # NoEngine /\ last.fate = "commit")

C9_Witness ==
  /\ last.op = "health"
  /\ engine # NoEngine
  /\ last.fate = "connectFail"
  /\ last.exc = "none"
  /\ last.body.db_connected = FALSE

(* C10: configuration is read once at start-up, so the model GET /health
   reports is the model identifier the Generator uses, which is also the
   model a generated review carries. *)
C10_ConfigReadOnce ==
  /\ last.op = "health" => last.body.model = MODEL_NAME
  /\ (Returned /\ ~last.run.mock /\ ~IsFallbackTag(last.run.body.model)) =>
       last.run.body.model = MODEL_NAME

TextsOf(x) == [i \in 1..Len(x.v) |-> x.v[i].v]
CommaFree(x) == \A i \in 1..Len(x.v) : \A j \in 1..Len(x.v[i].v) : x.v[i].v[j] # Comma
Trimmed(x) ==
  \A i \in 1..Len(x.v) :
    x.v[i].v # <<>> /\ Head(x.v[i].v) \notin Whitespace /\ x.v[i].v[Len(x.v[i].v)] \notin Whitespace

SavedThenListed ==
  /\ engine # NoEngine
  /\ last.op = "save" /\ last.exc = "none"
  /\ last'.op = "reviews" /\ last'.exc = "none" /\ last'.limit = 1

RoundTrips ==
  /\ Len(last'.items) = 1
  /\ last'.items[1].risks = TextsOf(last.args.risks)
  /\ last'.items[1].improvements = TextsOf(last.args.improvements)

(* C6 as stated: a save of risks and improvements whose strings hold no comma,
   followed by list(1), returns exactly the original sequences. *)
C6_RoundTripCommaFree ==
  [][(SavedThenListed /\ CommaFree(last.args.risks) /\ CommaFree(last.args.improvements))
       => RoundTrips]_vars

(* C6 amended: on configured storage, a successful save of risks and
   improvements whose strings hold no comma, are not empty and neither start
   nor end with whitespace, followed by list(1), returns exactly the original
   sequences. *)
C6_RoundTripClean ==
  [][(/\ SavedThenListed
      /\ CommaFree(last.args.risks) /\ CommaFree(last.args.improvements)
      /\ Trimmed(last.args.risks) /\ Trimmed(last.args.improvements))
       => RoundTrips]_vars

C6_Witness ==
  /\ engine # NoEngine
  /\ last.op = "reviews" /\ last.exc = "none" /\ last.limit = 1
  /\ Len(last.items) = 1
  /\ last.items[1].risks = << <<"a">>, <<"a", "a">> >>
  /\ \E r \in table : r.risks = <<"a", Comma, " ", "a", "a">>

NewerThan(r, q) == r.created_at > q.created_at

(* C7: on configured storage holding the rows of n successful saves,
   list(limit) returns exactly min(limit, n) records, by strictly descending
   id, and they are the most recently inserted ones, newest first; list
   leaves the stored records as they were. *)
C7_ListNewestFirst ==
  [][(engine # NoEngine /\ last'.op = "reviews" /\ last'.exc = "none") =>
       /\ table' = table /\ nextId' = nextId /\ now' = now
       /\ Len(last'.items) = Min2(last'.limit, Cardinality(table))
       /\ \A i \in 1..Len(last'.items) :
            /\ \E r \in table : Item(r) = last'.items[i]
            /\ \A j \in (i + 1)..Len(last'.items) :
                 /\ last'.items[i].id > last'.items[j].id
                 /\ NewerThan(last'.items[i], last'.items[j])
            /\ \A q \in table :
                 (\A j \in 1..Len(last'.items) : last'.items[j].id # q.id)
                   => NewerThan(last'.items[i], q)]_vars

C7_Witness ==
  /\ engine # NoEngine
  /\ last.op = "reviews" /\ last.exc = "none" /\ last.limit = 2
  /\ Cardinality(table) = 3
  /\ Len(last.items) = 2
  /\ \A r \in table : r.id <= last.items[1].id
  /\ last.items[1].id > last.items[2].id + 1

====
